---- MODULE Spec2Model ----
(***************************************************************************)
(* Model of src/src/App.js: the WeatherAnalyticsApp component.  The state  *)
(* is the component's React state plus one record per fetchWeather         *)
(* invocation (its position in the async function and what it was          *)
(* handed by the network).  Every continuation of the async function       *)
(* between two awaits is one action.                                       *)
(*                                                                         *)
(* Strings the code inspects (includes, toLowerCase, trim, concatenation)  *)
(* are sequences of one-character strings.  Temperatures and wind speeds   *)
(* are fixed-point integers in tenths of their unit (the API serves one    *)
(* decimal); a value in m/s is the exact rational n/d.                     *)
(***************************************************************************)
EXTENDS Integers, Sequences, FiniteSets, TLC

VARIABLES location, searchInput, weatherData, forecast, loading, error,
          mounted, calls, wdSrc, locSrc, fcSrc, lastResolved, overlapSubmit

vars == <<location, searchInput, weatherData, forecast, loading, error,
          mounted, calls, wdSrc, locSrc, fcSrc, lastResolved, overlapSubmit>>

view == <<location, weatherData, forecast, wdSrc, locSrc, fcSrc>>

(***************************************************************************)
(* Bounds of the model.                                                    *)
(***************************************************************************)
MaxInvocations == 3
MaxHourly == 30
MaxCandidates == 5

Min(a, b) == IF a < b THEN a ELSE b
Max(a, b) == IF a > b THEN a ELSE b

(***************************************************************************)
(* JavaScript values.                                                      *)
(***************************************************************************)
Null == [null |-> TRUE]
NullNum == -1
ErrorMessage == "Unable to fetch weather data. Please try another city."

Upper == <<"C", "D", "F", "H", "L", "M", "O", "P", "R", "S", "T", "U">>
Lower == <<"c", "d", "f", "h", "l", "m", "o", "p", "r", "s", "t", "u">>

lowerChar(c) ==
  IF \E k \in 1..Len(Upper) : Upper[k] = c
  THEN Lower[CHOOSE k \in 1..Len(Upper) : Upper[k] = c]
  ELSE c

toLowerCase(s) == [k \in 1..Len(s) |-> lowerChar(s[k])]

includes(s, sub) ==
  \E k \in 0..(Len(s) - Len(sub)) :
    \A j \in 1..Len(sub) : s[k + j] = sub[j]

RECURSIVE trimStart(_)
trimStart(s) ==
  IF s # <<>> /\ Head(s) = " " THEN trimStart(Tail(s)) ELSE s

RECURSIVE trimEnd(_)
trimEnd(s) ==
  IF s # <<>> /\ s[Len(s)] = " " THEN trimEnd(SubSeq(s, 1, Len(s) - 1)) ELSE s

trim(s) == trimEnd(trimStart(s))

\* Math.round on a value in tenths: the nearest integer, halves upwards.
MathRound(x10) == (x10 + 5) \div 10

(***************************************************************************)
(* Geocoder: the disambiguation of lines 31-34.                            *)
(***************************************************************************)
find(results, fc) ==
  IF \E k \in 1..Len(results) : results[k].feature_code = fc
  THEN LET k == CHOOSE k \in 1..Len(results) :
                  /\ results[k].feature_code = fc
                  /\ \A j \in 1..(k - 1) : results[j].feature_code # fc
       IN  results[k]
  ELSE Null

bestMatchMainCityFirst(results) ==
  IF find(results, "PPLA") # Null THEN find(results, "PPLA")
  ELSE IF find(results, "PPLC") # Null THEN find(results, "PPLC")
  ELSE results[1]

bestMatch(results) ==
  IF find(results, "PPLC") # Null THEN find(results, "PPLC")
  ELSE IF find(results, "PPLA") # Null THEN find(results, "PPLA")
  ELSE results[1]

\* Line 28: !geoData.results || geoData.results.length === 0
noCandidates(geoData) == geoData.missing \/ Len(geoData.results) = 0

(***************************************************************************)
(* View-model transformer: lines 48-76.                                    *)
(***************************************************************************)
weatherCodes ==
  {0, 1, 2, 3, 45, 48, 51, 53, 55, 61, 63, 65, 71, 73, 75, 80, 81, 82, 95}

getWeatherDescription(code) ==
  CASE code = 0 -> <<"C","l","e","a","r"," ","s","k","y">>
    [] code = 1 -> <<"M","a","i","n","l","y"," ","c","l","e","a","r">>
    [] code = 2 -> <<"P","a","r","t","l","y"," ","c","l","o","u","d","y">>
    [] code = 3 -> <<"O","v","e","r","c","a","s","t">>
    [] code = 45 -> <<"F","o","g","g","y">>
    [] code = 48 -> <<"F","o","g","g","y">>
    [] code = 51 -> <<"L","i","g","h","t"," ","d","r","i","z","z","l","e">>
    [] code = 53 -> <<"D","r","i","z","z","l","e">>
    [] code = 55 -> <<"H","e","a","v","y"," ","d","r","i","z","z","l","e">>
    [] code = 61 -> <<"L","i","g","h","t"," ","r","a","i","n">>
    [] code = 63 -> <<"R","a","i","n">>
    [] code = 65 -> <<"H","e","a","v","y"," ","r","a","i","n">>
    [] code = 71 -> <<"L","i","g","h","t"," ","s","n","o","w">>
    [] code = 73 -> <<"S","n","o","w">>
    [] code = 75 -> <<"H","e","a","v","y"," ","s","n","o","w">>
    [] code = 80 -> <<"L","i","g","h","t"," ","s","h","o","w","e","r","s">>
    [] code = 81 -> <<"S","h","o","w","e","r","s">>
    [] code = 82 -> <<"H","e","a","v","y"," ","s","h","o","w","e","r","s">>
    [] code = 95 -> <<"T","h","u","n","d","e","r","s","t","o","r","m">>
    [] OTHER -> <<"U","n","k","n","o","w","n">>

Rain == <<"R","a","i","n">>
Clouds == <<"C","l","o","u","d","s">>
Clear == <<"C","l","e","a","r">>

\* Lines 69-70: the category by substring of the description.
conditionMain(weatherDesc) ==
  IF includes(weatherDesc, <<"r","a","i","n">>)
       \/ includes(weatherDesc, <<"s","h","o","w","e","r">>) THEN Rain
  ELSE IF includes(weatherDesc, <<"c","l","o","u","d">>)
       \/ includes(weatherDesc, <<"O","v","e","r","c","a","s","t">>) THEN Clouds
  ELSE Clear

\* Line 74: km/h (in tenths) divided by 3.6 is the rational kmh10/36 m/s.
kmhToMs(kmh10) == [n |-> kmh10, d |-> 36]

\* r > c for a rational r and an integer c.
ratGT(r, c) == r.n > c * r.d

transformedData(place, current) ==
  [name |-> place.name \o
            (IF place.country # <<>> THEN <<",", " ">> \o place.country
                                     ELSE <<>>),
   main |-> [temp |-> current.temperature_2m,
             feels_like |-> current.apparent_temperature,
             humidity |-> current.relative_humidity_2m,
             pressure |-> current.surface_pressure],
   weather |-> [main |-> conditionMain(getWeatherDescription(current.weather_code)),
                description |->
                  toLowerCase(getWeatherDescription(current.weather_code))],
   wind |-> [speed |-> kmhToMs(current.wind_speed_10m)]]

(***************************************************************************)
(* Forecast windowing: lines 82-98.  hour is the code's 0-based index.     *)
(***************************************************************************)
\* toLocaleTimeString('en-US', {hour: '2-digit', minute: '2-digit'}) of an
\* hourly timestamp, given as the number of hours since local midnight of
\* the first day.
formatTime(t) ==
  [hour |-> IF (t % 24) % 12 = 0 THEN 12 ELSE (t % 24) % 12,
   minute |-> 0,
   period |-> IF t % 24 < 12 THEN "AM" ELSE "PM"]

forecastPoint(hourlyData, hour) ==
  [time |-> formatTime(hourlyData.time[hour + 1]),
   temp |-> MathRound(hourlyData.temperature_2m[hour + 1]),
   feels_like |-> MathRound(hourlyData.apparent_temperature[hour + 1]),
   humidity |-> hourlyData.relative_humidity_2m[hour + 1],
   rain |-> IF hourlyData.precipitation_probability[hour + 1] = NullNum
            THEN 0
            ELSE hourlyData.precipitation_probability[hour + 1]]

RECURSIVE forecastLoop(_, _, _, _)
forecastLoop(hourlyData, currentHour, i, acc) ==
  IF i < 8
  THEN IF currentHour + i < Len(hourlyData.time)
       THEN forecastLoop(hourlyData, currentHour, i + 1,
                         Append(acc, forecastPoint(hourlyData, currentHour + i)))
       ELSE forecastLoop(hourlyData, currentHour, i + 1, acc)
  ELSE acc

\* The window taken from the start of the series instead of the current hour.
processedForecastFromMidnight(hourlyData, currentHour) ==
  forecastLoop(hourlyData, 0, 0, <<>>)

processedForecast(hourlyData, currentHour) ==
  forecastLoop(hourlyData, currentHour, 0, <<>>)

(***************************************************************************)
(* Recommendation generator: lines 123-138.                                *)
(***************************************************************************)
WarmJacket == "Wear a warm jacket"
LightJacket == "Light jacket recommended"
Outdoor == "Perfect for outdoor activities"
Umbrella == "Don't forget your umbrella"
Hydrated == "High humidity - stay hydrated"
Windy == "Windy conditions expected"

pushIf(cond, recommendations, advisory) ==
  IF cond THEN Append(recommendations, advisory) ELSE recommendations

conditionalAdvisories(wd, recommendations) ==
  pushIf(ratGT(wd.wind.speed, 10),
    pushIf(wd.main.humidity > 70,
      pushIf(includes(toLowerCase(wd.weather.main), <<"r","a","i","n">>),
             recommendations, Umbrella),
      Hydrated),
    Windy)

\* The wind threshold applied to the raw km/h reading.
getRecommendationsWindInKmh(wd) ==
  IF wd = Null THEN <<>>
  ELSE pushIf(wd.wind.speed.n > 10 * 10,
         pushIf(wd.main.humidity > 70,
           pushIf(includes(toLowerCase(wd.weather.main), <<"r","a","i","n">>),
                  <<(IF wd.main.temp < 100 THEN WarmJacket
                     ELSE IF wd.main.temp < 200 THEN LightJacket
                     ELSE Outdoor)>>,
                  Umbrella),
           Hydrated),
         Windy)

\* The temperature band tested by independent ifs instead of an else-if chain.
getRecommendationsNoElse(wd) ==
  IF wd = Null THEN <<>>
  ELSE conditionalAdvisories(wd,
         pushIf(wd.main.temp >= 200,
           pushIf(wd.main.temp < 200,
             pushIf(wd.main.temp < 100, <<>>, WarmJacket),
             LightJacket),
           Outdoor))

getRecommendations(wd) ==
  IF wd = Null THEN <<>>
  ELSE conditionalAdvisories(wd,
         <<(IF wd.main.temp < 100 THEN WarmJacket
            ELSE IF wd.main.temp < 200 THEN LightJacket
            ELSE Outdoor)>>)

(***************************************************************************)
(* What the network can hand to an invocation.                             *)
(***************************************************************************)
Rejected == [rejected |-> TRUE]
FetchOutcomes == {"reject", "notOk", "ok"}
FeatureCodes == {"PPLC", "PPLA", "PPL"}
Digits == <<"1", "2", "3", "4", "5", "6", "7", "8", "9">>

\* The candidate the service ranks k-th; every candidate of a list differs
\* from the others in coordinates and name.
Cand(k, fc) ==
  [feature_code |-> fc, latitude |-> 40 + k, longitude |-> 0 - k,
   name |-> <<"c", Digits[k]>>,
   country |-> IF k % 2 = 0 THEN <<>> ELSE <<"U", "K">>]

GeoLists(n) ==
  UNION {{[k \in 1..m |-> Cand(k, f[k])] : f \in [1..m -> FeatureCodes]} :
         m \in 1..n}

GeoMissing == [missing |-> TRUE, results |-> <<>>]
GeoEmpty == [missing |-> FALSE, results |-> <<>>]
GeoOf(r) == [missing |-> FALSE, results |-> r]

GeoAll == {GeoMissing, GeoEmpty} \cup {GeoOf(r) : r \in GeoLists(MaxCandidates)}
GeoSmall == {GeoMissing, GeoEmpty, GeoOf(<<Cand(1, "PPL"), Cand(2, "PPLC")>>)}

Current(t, code, hum, wind) ==
  [temperature_2m |-> t, apparent_temperature |-> t - 12,
   relative_humidity_2m |-> hum, weather_code |-> code,
   wind_speed_10m |-> wind, surface_pressure |-> 10132]

HourlySeries(len) ==
  [time |-> [j \in 1..len |-> j - 1],
   temperature_2m |-> [j \in 1..len |-> 13 * j - 48],
   apparent_temperature |-> [j \in 1..len |-> 13 * j - 65],
   relative_humidity_2m |-> [j \in 1..len |-> 40 + j],
   precipitation_probability |->
     [j \in 1..len |-> IF j % 3 = 0 THEN NullNum ELSE (7 * j) % 100]]

Wx(c, h) == [current |-> c, hourly |-> h]

Hours == 0..23

WxSmall == {Wx(Null, HourlySeries(3)),
            Wx(Current(52, 63, 80, 400), Null),
            Wx(Current(251, 0, 50, 100), HourlySeries(3)),
            Wx(Current(150, 61, 80, 400), HourlySeries(0))}
HoursSmall == {1}

WxForecast == {Wx(Current(251, 0, 50, 100), HourlySeries(len)) : len \in 0..MaxHourly}

Temps == {52, 99, 100, 199, 200, 251}
Humidities == {70, 71, 80}
Winds == {105, 360, 361, 400}
Codes == weatherCodes \cup {4, 99}

WxCurrent ==
  {Wx(Current(t, code, hum, wind), HourlySeries(2)) :
     t \in Temps, code \in Codes, hum \in Humidities, wind \in Winds}

London == <<"L","o","n","d","o","n">>
SearchInputs == {<<" ">>, <<" ","R","o","m","e"," ">>}

(***************************************************************************)
(* The component's state and the fetchWeather invocations.                 *)
(***************************************************************************)
InFlightPcs == {"geoFetch", "geoJson", "wxFetch", "wxJson"}
inFlight == {i \in 1..Len(calls) : calls[i].pc \in InFlightPcs}

newCall(city) ==
  [pc |-> "geoFetch", city |-> city, geoReqs |-> 1, wxReqs |-> 0,
   geoStatus |-> "pending", geoBody |-> "pending", geo |-> <<>>, place |-> Null, wxReq |-> Null,
   wx |-> Null, hour |-> 0, outcome |-> "none"]

Init ==
  /\ location = <<>>
  /\ searchInput = <<>>
  /\ weatherData = Null
  /\ forecast = <<>>
  /\ loading = FALSE
  /\ error = ""
  /\ mounted = FALSE
  /\ calls = <<>>
  /\ wdSrc = 0
  /\ locSrc = 0
  /\ fcSrc = 0
  /\ lastResolved = 0
  /\ overlapSubmit = FALSE

\* Lines 16-20 without line 16.
fetchWeatherEntryNoLoading(city) ==
  /\ loading' = loading
  /\ error' = ""
  /\ calls' = Append(calls, newCall(city))

\* Lines 16-20: the synchronous head of fetchWeather, up to the first await.
fetchWeatherEntry(city) ==
  /\ loading' = TRUE
  /\ error' = ""
  /\ calls' = Append(calls, newCall(city))

\* The finally block left out.
settleKeepLoading(i, rec) ==
  /\ calls' = [calls EXCEPT ![i] = [rec EXCEPT !.pc = "done"]]
  /\ loading' = loading

\* Lines 104-106: the finally block, which ends the invocation.
settle(i, rec) ==
  /\ calls' = [calls EXCEPT ![i] = [rec EXCEPT !.pc = "done"]]
  /\ loading' = FALSE

\* Lines 101-106: catch, then finally.
catchFinally(i, rec) ==
  /\ error' = ErrorMessage
  /\ settle(i, [rec EXCEPT !.outcome = "fail"])

\* Lines 140-142: the effect that runs once after the first render.
Startup ==
  /\ ~mounted
  /\ mounted' = TRUE
  /\ fetchWeatherEntry(London)
  /\ UNCHANGED <<searchInput, view, lastResolved, overlapSubmit>>

\* Line 160: onChange of the text input.
onChange(v) ==
  /\ mounted
  /\ searchInput # v
  /\ searchInput' = v
  /\ UNCHANGED <<view, loading, error, mounted, calls, lastResolved,
                 overlapSubmit>>

\* Lines 109-113, from the button (line 171) or the Enter key (line 162).
handleSearch ==
  /\ mounted
  /\ Len(calls) < MaxInvocations
  /\ trim(searchInput) # <<>>
  /\ fetchWeatherEntry(trim(searchInput))
  /\ overlapSubmit' = (overlapSubmit \/ loading)
  /\ UNCHANGED <<searchInput, view, mounted, lastResolved>>

\* Line 24 left out: only a transport error ends the invocation.
responseOkIgnoreStatus(r) == r # "reject"

\* Lines 24 and 42: the await did not throw and the status is a success.
responseOk(r) == r = "ok"

\* Lines 20-24: the geocoding fetch settles.
GeoFetchResolve(i) ==
  /\ calls[i].pc = "geoFetch"
  /\ \E r \in FetchOutcomes :
       IF responseOk(r)
       THEN /\ calls' = [calls EXCEPT ![i].pc = "geoJson", ![i].geoStatus = r]
            /\ UNCHANGED <<loading, error>>
       ELSE catchFinally(i, [calls[i] EXCEPT !.geoStatus = r])
  /\ UNCHANGED <<searchInput, view, mounted, lastResolved, overlapSubmit>>

\* Lines 26-40: the geocoding body is read, the best match chosen and the
\* weather request issued.
GeoJsonResolve(i, payloads) ==
  /\ calls[i].pc = "geoJson"
  /\ \E g \in payloads \cup {Rejected} :
       IF g = Rejected
       THEN catchFinally(i, [calls[i] EXCEPT !.geoBody = "rejected"])
       ELSE IF noCandidates(g)
       THEN catchFinally(i, [calls[i] EXCEPT
                               !.geoBody = IF g.missing THEN "missing" ELSE "read",
                               !.geo = g.results])
       ELSE /\ calls' = [calls EXCEPT ![i] =
                 [@ EXCEPT !.pc = "wxFetch",
                           !.geoBody = "read",
                           !.geo = g.results,
                           !.place = bestMatch(g.results),
                           !.wxReq = [latitude |-> bestMatch(g.results).latitude,
                                      longitude |-> bestMatch(g.results).longitude],
                           !.wxReqs = @ + 1]]
            /\ UNCHANGED <<loading, error>>
  /\ UNCHANGED <<searchInput, view, mounted, lastResolved, overlapSubmit>>

\* Lines 38-42: the weather fetch settles.
WxFetchResolve(i) ==
  /\ calls[i].pc = "wxFetch"
  /\ \E r \in FetchOutcomes :
       IF responseOk(r)
       THEN /\ calls' = [calls EXCEPT ![i].pc = "wxJson"]
            /\ UNCHANGED <<loading, error>>
       ELSE catchFinally(i, calls[i])
  /\ UNCHANGED <<searchInput, view, mounted, lastResolved, overlapSubmit>>

\* Line 100 skipped when the window is empty.
setForecastUnlessEmpty(i, fc) ==
  /\ forecast' = IF fc = <<>> THEN forecast ELSE fc
  /\ fcSrc' = IF fc = <<>> THEN fcSrc ELSE i

\* Line 100.
setForecast(i, fc) ==
  /\ forecast' = fc
  /\ fcSrc' = i

\* Lines 44-100: the weather body is read; the view model is built and
\* stored (lines 78-79), then the forecast (lines 82-100).  A missing
\* current block throws at line 58, before anything is stored; a missing
\* hourly block throws at line 89, after lines 78-79 ran.
WxJsonResolve(i, payloads, hours) ==
  /\ calls[i].pc = "wxJson"
  /\ \E w \in payloads \cup {Rejected}, h \in hours :
       IF w = Rejected
       THEN /\ catchFinally(i, calls[i])
            /\ UNCHANGED <<view, lastResolved>>
       ELSE /\ lastResolved' = i
            /\ IF w.current = Null
               THEN /\ catchFinally(i, [calls[i] EXCEPT !.wx = w, !.hour = h])
                    /\ UNCHANGED view
               ELSE /\ weatherData' = transformedData(calls[i].place, w.current)
                    /\ location' = transformedData(calls[i].place, w.current).name
                    /\ wdSrc' = i
                    /\ locSrc' = i
                    /\ IF w.hourly = Null
                       THEN /\ catchFinally(i, [calls[i] EXCEPT !.wx = w, !.hour = h])
                            /\ UNCHANGED <<forecast, fcSrc>>
                       ELSE /\ setForecast(i, processedForecast(w.hourly, h))
                            /\ settle(i, [calls[i] EXCEPT !.wx = w, !.hour = h,
                                                          !.outcome = "ok"])
                            /\ error' = error
  /\ UNCHANGED <<searchInput, mounted, overlapSubmit>>

(***************************************************************************)
(* Spec: the component under the startup fetch, typing and submissions.    *)
(***************************************************************************)
Next ==
  \/ Startup
  \/ \E v \in SearchInputs : onChange(v)
  \/ handleSearch
  \/ \E i \in 1..Len(calls) : GeoFetchResolve(i)
  \/ \E i \in 1..Len(calls) : GeoJsonResolve(i, GeoSmall)
  \/ \E i \in 1..Len(calls) : WxFetchResolve(i)
  \/ \E i \in 1..Len(calls) : WxJsonResolve(i, WxSmall, HoursSmall)

Spec == Init /\ [][Next]_vars

(***************************************************************************)
(* SpecGeo: the startup fetch against every candidate list the geocoding   *)
(* service can return.                                                     *)
(***************************************************************************)
NextGeo ==
  \/ Startup
  \/ \E i \in 1..Len(calls) : GeoFetchResolve(i)
  \/ \E i \in 1..Len(calls) : GeoJsonResolve(i, GeoAll)
  \/ \E i \in 1..Len(calls) : WxFetchResolve(i)
  \/ \E i \in 1..Len(calls) : WxJsonResolve(i, WxSmall, HoursSmall)

SpecGeo == Init /\ [][NextGeo]_vars

(***************************************************************************)
(* SpecForecast: the startup fetch against hourly series of every length   *)
(* and every hour of the day.                                              *)
(***************************************************************************)
NextForecast ==
  \/ Startup
  \/ \E i \in 1..Len(calls) : GeoFetchResolve(i)
  \/ \E i \in 1..Len(calls) : GeoJsonResolve(i, GeoSmall)
  \/ \E i \in 1..Len(calls) : WxFetchResolve(i)
  \/ \E i \in 1..Len(calls) : WxJsonResolve(i, WxForecast, Hours)

SpecForecast == Init /\ [][NextForecast]_vars

(***************************************************************************)
(* SpecCurrent: the startup fetch against current-conditions blocks on     *)
(* both sides of every threshold and with every weather code.              *)
(***************************************************************************)
NextCurrent ==
  \/ Startup
  \/ \E i \in 1..Len(calls) : GeoFetchResolve(i)
  \/ \E i \in 1..Len(calls) : GeoJsonResolve(i, GeoSmall)
  \/ \E i \in 1..Len(calls) : WxFetchResolve(i)
  \/ \E i \in 1..Len(calls) : WxJsonResolve(i, WxCurrent, HoursSmall)

SpecCurrent == Init /\ [][NextCurrent]_vars

(***************************************************************************)
(* Properties.                                                             *)
(***************************************************************************)

\* C1: an invocation that ends in failure writes none of weatherData,
\* location and forecast: the step in which it fails leaves all three as
\* they were.
C1_FailedFetchWritesNothing ==
  [][\A i \in 1..Len(calls) :
       (calls[i].outcome = "none" /\ calls'[i].outcome = "fail")
         => /\ weatherData' = weatherData
            /\ location' = location
            /\ forecast' = forecast]_vars

\* The candidate the claim C2 names: the first capital, else the first
\* primary administrative city, else the first of the list.
FirstIndexOf(r, fc) ==
  CHOOSE k \in 1..Len(r) :
    r[k].feature_code = fc /\ \A j \in 1..(k - 1) : r[j].feature_code # fc

HasCode(r, fc) == \E k \in 1..Len(r) : r[k].feature_code = fc

SelectedIndex(r) ==
  IF HasCode(r, "PPLC") THEN FirstIndexOf(r, "PPLC")
  ELSE IF HasCode(r, "PPLA") THEN FirstIndexOf(r, "PPLA")
  ELSE 1

LabelOf(c) ==
  IF c.country = <<>> THEN c.name ELSE c.name \o <<",", " ">> \o c.country

\* C2: for every list of 1 to 5 candidates the weather request carries the
\* coordinates of the first PPLC candidate, else of the first PPLA
\* candidate, else of the candidate at index 0, and the location label of a
\* successful fetch is built from that candidate's name.
C2_BestMatchPrecedence ==
  \A i \in 1..Len(calls) :
    calls[i].wxReqs > 0 =>
      LET r == calls[i].geo
          sel == r[SelectedIndex(r)]
      IN  /\ Len(r) \in 1..MaxCandidates
          /\ calls[i].wxReq = [latitude |-> sel.latitude,
                               longitude |-> sel.longitude]
          /\ calls[i].place = sel
          /\ (locSrc = i => location = LabelOf(sel))

C2_Witness ==
  \E i \in 1..Len(calls) :
    /\ calls[i].outcome = "ok"
    /\ locSrc = i
    /\ Len(calls[i].geo) = MaxCandidates
    /\ calls[i].geo[1].feature_code = "PPL"
    /\ calls[i].geo[2].feature_code = "PPLA"
    /\ calls[i].geo[3].feature_code = "PPLC"
    /\ calls[i].wxReq.latitude = calls[i].geo[3].latitude

\* C3, as stated: in every reachable state at most one invocation is in
\* flight.
C3_AtMostOneInFlight == Cardinality(inFlight) <= 1

\* C3, amended: at most one invocation is in flight as long as no
\* submission was made while the loading flag was set.
C3_OneInFlightUnlessSubmittedWhileLoading ==
  ~overlapSubmit => Cardinality(inFlight) <= 1

C3_Witness ==
  /\ ~overlapSubmit
  /\ Len(calls) >= 2
  /\ calls[1].pc = "done"
  /\ calls[2].pc \in InFlightPcs

\* C4: an invocation issues each request at most once; it issues the
\* weather request only after its geocode request resolved with a success
\* status and at least one candidate, and never after a geocoding failure
\* or an empty lookup; a failed invocation issues nothing further.
GeoFailed(c) ==
  \/ c.geoStatus \in {"reject", "notOk"}
  \/ c.geoBody \in {"rejected", "missing"}
  \/ (c.geoBody = "read" /\ Len(c.geo) = 0)

C4_SequentialSingleAttempt ==
  \A i \in 1..Len(calls) :
    /\ calls[i].geoReqs = 1
    /\ calls[i].wxReqs \in {0, 1}
    /\ calls[i].wxReqs = 1 =>
         /\ calls[i].geoStatus = "ok"
         /\ calls[i].geoBody = "read"
         /\ Len(calls[i].geo) >= 1
    /\ GeoFailed(calls[i]) =>
         /\ calls[i].wxReqs = 0
         /\ calls[i].pc = "done"
         /\ calls[i].outcome = "fail"
    /\ calls[i].outcome = "fail" => calls[i].pc = "done"

C4_Witness ==
  \E i, j \in 1..Len(calls) :
    /\ calls[i].outcome = "fail"
    /\ calls[i].geoBody = "read"
    /\ Len(calls[i].geo) = 0
    /\ calls[i].wxReqs = 0
    /\ calls[j].outcome = "fail"
    /\ calls[j].wxReqs = 1
    /\ calls[j].wx = Null

RawCurrent == calls[wdSrc].wx.current

BandOf(t10) ==
  IF t10 < 100 THEN WarmJacket
  ELSE IF t10 < 200 THEN LightJacket
  ELSE Outdoor

\* C6: the advisories are one temperature-band advisory (cold below 10,
\* light jacket from 10 to below 20, fair weather from 20) followed, in
\* this order, by the umbrella advisory iff the category is Rain, the
\* hydration advisory iff humidity > 70 and the wind advisory iff the raw
\* km/h reading divided by 3.6 exceeds 10; code 61, humidity 80 and wind
\* 40 km/h give all four.
C6_AdvisoryOrder ==
  weatherData # Null =>
    /\ getRecommendations(weatherData) =
         <<BandOf(RawCurrent.temperature_2m)>>
         \o (IF weatherData.weather.main = Rain THEN <<Umbrella>> ELSE <<>>)
         \o (IF RawCurrent.relative_humidity_2m > 70 THEN <<Hydrated>> ELSE <<>>)
         \o (IF RawCurrent.wind_speed_10m > 360 THEN <<Windy>> ELSE <<>>)
    /\ (/\ RawCurrent.weather_code = 61
        /\ RawCurrent.relative_humidity_2m = 80
        /\ RawCurrent.wind_speed_10m = 400) =>
         getRecommendations(weatherData) =
           <<BandOf(RawCurrent.temperature_2m), Umbrella, Hydrated, Windy>>

C6_Witness ==
  /\ weatherData # Null
  /\ RawCurrent.weather_code = 61
  /\ RawCurrent.relative_humidity_2m = 80
  /\ RawCurrent.wind_speed_10m = 400
  /\ RawCurrent.temperature_2m = 100
  /\ getRecommendations(weatherData) = <<LightJacket, Umbrella, Hydrated, Windy>>

\* C7, as stated: for every view model the advisory list has 2 to 4
\* entries.
C7_TwoToFourAdvisories ==
  weatherData # Null => Len(getRecommendations(weatherData)) \in 2..4

\* C7, amended: for every view model the advisory list has 1 to 4 entries.
C7_OneToFourAdvisories ==
  weatherData # Null => Len(getRecommendations(weatherData)) \in 1..4

C7_Witness ==
  /\ weatherData # Null
  /\ Len(getRecommendations(weatherData)) = 1
  /\ weatherData.main.humidity = 70
  /\ weatherData.wind.speed = [n |-> 360, d |-> 36]

\* C8: codes 61, 63, 65, 80, 81 and 82 give the category Rain, codes 2 and
\* 3 give Clouds, every other code gives Clear.
C8_CategoryOfCode ==
  weatherData # Null =>
    weatherData.weather.main =
      (IF RawCurrent.weather_code \in {61, 63, 65, 80, 81, 82} THEN Rain
       ELSE IF RawCurrent.weather_code \in {2, 3} THEN Clouds
       ELSE Clear)

\* C9: when the invocation whose weather response resolved last succeeded,
\* weatherData, location and forecast all hold what that invocation
\* produced, whatever the order of submission.
C9_LastResolvedWins ==
  (lastResolved # 0 /\ calls[lastResolved].outcome = "ok") =>
    LET c == calls[lastResolved]
    IN  /\ wdSrc = lastResolved
        /\ locSrc = lastResolved
        /\ fcSrc = lastResolved
        /\ weatherData = transformedData(c.place, c.wx.current)
        /\ location = LabelOf(c.place)
        /\ forecast = processedForecast(c.wx.hourly, c.hour)

C9_Witness ==
  /\ Len(calls) >= 2
  /\ inFlight = {}
  /\ calls[1].outcome = "ok"
  /\ calls[2].outcome = "ok"
  /\ lastResolved = 1
  /\ calls[1].wx # calls[2].wx
  /\ forecast = <<>>
  /\ calls[2].wx.hourly # calls[1].wx.hourly

\* C10, as stated: the loading flag is set if and only if at least one
\* invocation is in flight.
C10_LoadingIffInFlight == loading <=> (inFlight # {})

\* C10, amended: whenever the loading flag is set an invocation is in
\* flight (so the flag is clear once none is), and the flag is set
\* whenever one is in flight as long as no submission was made while the
\* flag was set.
C10_LoadingImpliesInFlight ==
  /\ loading => inFlight # {}
  /\ ~overlapSubmit => (loading <=> (inFlight # {}))

C10_Witness ==
  /\ loading
  /\ overlapSubmit
  /\ Cardinality(inFlight) = 2

====
